---- MODULE Spec2Model ----
(***************************************************************************)
(* A model of app/src/models/status.ts (FileChange identity, the          *)
(* per-file selection operations, the WorkingDirectoryStatus aggregate)   *)
(* and of the "check again" timer of app/src/ui/missing-repository.tsx.   *)
(*                                                                         *)
(* JavaScript strings are TLA+ strings and template literals are string   *)
(* concatenation (\o).  Array indices and the values of the id -> index   *)
(* map are 0-based as in the source; element ix of an array a is a[ix+1]. *)
(* A `boolean | null` field holds one of "true", "false", "null".         *)
(***************************************************************************)
EXTENDS Integers, Sequences, FiniteSets, TLC

VARIABLES
    pending,    \* the freshly parsed file list that fromFiles has yet to receive
    loaded,     \* TRUE once WorkingDirectoryStatus.fromFiles(pending) has run
    prev,       \* the receiver of the last withIncludeAllFiles call
    workingDirectory,   \* the current WorkingDirectoryStatus
    calls,      \* the arguments of the withIncludeAllFiles calls since `base`
    base,       \* the status the calls in `calls` started from
    found,      \* the last lookup: the id asked for and what both finders returned
    subject,    \* the object before `produced`: a method's receiver as the call left it
    produced,   \* the object the last constructor or method call returned
    fop,        \* the last file-level call: its name, argument, and receiver beforehand
    checkingAgainTimeElapsed,       \* MissingRepository field
    checkingAgainRefreshCompleted,  \* MissingRepository field
    checkingTimer,                  \* MissingRepository field: 0 is null, else a timer id
    timers,         \* window timers set and neither fired nor cleared
    nextTimerId,    \* the id window.setTimeout returns next
    refreshing,     \* the checks (by timer id) whose dispatched refresh is still running
    rendered,       \* what renderCheckAgainText returned at the last render
    mounted         \* FALSE after componentWillUnmount

statusVars == <<pending, loaded, prev, workingDirectory, calls, base, found>>
fileVars == <<subject, produced, fop>>
viewVars == <<checkingAgainTimeElapsed, checkingAgainRefreshCompleted, checkingTimer,
              timers, nextTimerId, refreshing, rendered, mounted>>
vars == <<statusVars, fileVars, viewVars>>

(***************************************************************************)
(* Bounds and sample inputs.                                               *)
(***************************************************************************)
MaxFiles == 2

MaxCalls == 2

MaxChecks == 5

\* the value a lookup returns for an absent file, and the "no call yet" record
null == [null |-> TRUE]

Paths == {"b.txt", "b.txt+a.txt"}

OldPaths == {"a.txt", "a.txt+a.txt"}

ConflictStatuses == {"BothModified", "DeletedByThem"}

Commitishes == {"HEAD", "a1b2c3"}

(***************************************************************************)
(* AppFileStatusKind and AppFileStatus.                                    *)
(***************************************************************************)
AppFileStatusKind ==
    {"New", "Modified", "Deleted", "Copied", "Renamed", "Conflicted", "Resolved"}

PlainFileStatus == [kind : {"New", "Modified", "Deleted"}]

ResolvedFileStatus == [kind : {"Resolved"}]

CopiedOrRenamedFileStatus == [kind : {"Copied", "Renamed"}, oldPath : OldPaths]

ConflictedFileStatus == [kind : {"Conflicted"}, conflictStatus : ConflictStatuses]

AppFileStatus ==
    PlainFileStatus \cup CopiedOrRenamedFileStatus
        \cup ConflictedFileStatus \cup ResolvedFileStatus

(***************************************************************************)
(* DiffSelection (./diff): a value with a selection type and the two      *)
(* whole-file operations this model reads.                                 *)
(***************************************************************************)
DiffSelectionType == {"All", "None", "Partial"}

DiffSelection == [selectionType : DiffSelectionType]

getSelectionType(selection) == selection.selectionType

withSelectAll(selection) == [selection EXCEPT !.selectionType = "All"]

withSelectNone(selection) == [selection EXCEPT !.selectionType = "None"]

(***************************************************************************)
(* FileChange and its two subclasses.                                      *)
(***************************************************************************)
\* an id that leaves the old path out for every kind
FileChangeWithoutOldPath(path, status) ==
    [path |-> path,
     status |-> status,
     id |-> status.kind \o "+" \o path]

FileChange(path, status) ==
    [path |-> path,
     status |-> status,
     id |-> IF status.kind = "Renamed" \/ status.kind = "Copied"
            THEN status.kind \o "+" \o path \o "+" \o status.oldPath
            ELSE status.kind \o "+" \o path]

WorkingDirectoryFileChange(path, status, selection) ==
    LET super == FileChange(path, status)
    IN  [path |-> super.path, status |-> super.status, id |-> super.id,
         selection |-> selection]

CommittedFileChange(path, status, commitish) ==
    LET super == FileChange(path, status)
    IN  [path |-> super.path, status |-> super.status, id |-> super.id,
         commitish |-> commitish]

\* a withSelection that hands the receiver's own selection to the constructor
withSelectionOfThis(this, selection) ==
    WorkingDirectoryFileChange(this.path, this.status, this.selection)

withSelection(this, selection) ==
    WorkingDirectoryFileChange(this.path, this.status, selection)

\* a withIncludeAll that only ever selects: include = false leaves the file as it is
withIncludeAllOnlySelects(this, include) ==
    IF include THEN withSelection(this, withSelectAll(this.selection)) ELSE this

withIncludeAll(this, include) ==
    LET newSelection == IF include THEN withSelectAll(this.selection)
                                   ELSE withSelectNone(this.selection)
    IN  withSelection(this, newSelection)

(***************************************************************************)
(* WorkingDirectoryStatus.                                                 *)
(***************************************************************************)
\* a Map.set that keeps the value a key already has (first write wins)
MapSetKeepingFirst(map, key, value) ==
    [k \in (DOMAIN map) \cup {key} |-> IF k \in DOMAIN map THEN map[k] ELSE value]

\* Map.prototype.set: the key's earlier value, if any, is replaced
MapSet(map, key, value) ==
    [k \in (DOMAIN map) \cup {key} |-> IF k = key THEN value ELSE map[k]]

\* files.forEach((f, ix) => this.fileIxById.set(f.id, ix)), from index ix on
RECURSIVE forEachSet(_, _, _)
forEachSet(files, ix, map) ==
    IF ix >= Len(files) THEN map
    ELSE forEachSet(files, ix + 1, MapSet(map, files[ix + 1].id, ix))

WorkingDirectoryStatus(files, includeAll) ==
    [files |-> files,
     includeAll |-> includeAll,
     fileIxById |-> forEachSet(files, 0, <<>>)]

\* a derivation that takes "no file is fully selected" for "none selected"
getIncludeAllStateNotAll(files) ==
    IF Len(files) = 0 THEN "true"
    ELSE LET allSelected ==
                 \A i \in 1..Len(files) : getSelectionType(files[i].selection) = "All"
             noneSelected ==
                 \A i \in 1..Len(files) : getSelectionType(files[i].selection) # "All"
         IN  IF allSelected THEN "true"
             ELSE IF noneSelected THEN "false"
             ELSE "null"

getIncludeAllState(files) ==
    IF Len(files) = 0 THEN "true"
    ELSE LET allSelected ==
                 \A i \in 1..Len(files) : getSelectionType(files[i].selection) = "All"
             noneSelected ==
                 \A i \in 1..Len(files) : getSelectionType(files[i].selection) = "None"
         IN  IF allSelected THEN "true"
             ELSE IF noneSelected THEN "false"
             ELSE "null"

fromFiles(files) == WorkingDirectoryStatus(files, getIncludeAllState(files))

\* a bulk selection that derives includeAll from the new file list
withIncludeAllFilesRederived(this, includeAll) ==
    LET newFiles == [i \in 1..Len(this.files) |-> withIncludeAll(this.files[i], includeAll)]
    IN  fromFiles(newFiles)

withIncludeAllFiles(this, includeAll) ==
    LET newFiles == [i \in 1..Len(this.files) |-> withIncludeAll(this.files[i], includeAll)]
    IN  WorkingDirectoryStatus(newFiles, IF includeAll THEN "true" ELSE "false")

findFileWithID(this, id) ==
    IF id \in DOMAIN this.fileIxById
    THEN LET ix == this.fileIxById[id]
         IN  IF ix + 1 \in DOMAIN this.files THEN this.files[ix + 1] ELSE null
    ELSE null

\* `ix ? ix : -1`: a truthiness test, which takes index 0 for absent
findFileIndexByIDTruthy(this, id) ==
    IF id \in DOMAIN this.fileIxById /\ this.fileIxById[id] # 0
    THEN this.fileIxById[id] ELSE -1

findFileIndexByID(this, id) ==
    IF id \in DOMAIN this.fileIxById THEN this.fileIxById[id] ELSE -1

(***************************************************************************)
(* The inputs of the aggregate: working-directory changes as the parser   *)
(* and classifier hand them over, every one built by the constructor.     *)
(***************************************************************************)
SampleChanges ==
    {<<"b.txt", [kind |-> "New"]>>,
     <<"b.txt", [kind |-> "Modified"]>>,
     <<"b.txt", [kind |-> "Renamed", oldPath |-> "a.txt"]>>,
     <<"b.txt", [kind |-> "Renamed", oldPath |-> "a.txt+a.txt"]>>,
     <<"b.txt+a.txt", [kind |-> "Renamed", oldPath |-> "a.txt"]>>}

SampleFiles ==
    {WorkingDirectoryFileChange(c[1], c[2], s) : c \in SampleChanges, s \in DiffSelection}

FileLists == UNION {[1..n -> SampleFiles] : n \in 0..MaxFiles}

QueryIds == {f.id : f \in SampleFiles} \cup {"Deleted+y"}

(***************************************************************************)
(* Initial values of the three groups of variables.                        *)
(***************************************************************************)
StatusStart(files) ==
    /\ pending = files
    /\ loaded = FALSE
    /\ workingDirectory = fromFiles(<<>>)
    /\ prev = workingDirectory
    /\ base = workingDirectory
    /\ calls = <<>>
    /\ found = null

FileStart(change) ==
    /\ subject = change
    /\ produced = change
    /\ fop = [name |-> "new"]

ViewStart ==
    /\ checkingAgainTimeElapsed = TRUE
    /\ checkingAgainRefreshCompleted = TRUE
    /\ checkingTimer = 0
    /\ timers = {}
    /\ nextTimerId = 1
    /\ refreshing = {}
    /\ rendered = "Check again."
    /\ mounted = TRUE

(***************************************************************************)
(* Spec: the working-directory aggregate.                                  *)
(***************************************************************************)
Init ==
    /\ \E files \in FileLists : StatusStart(files)
    /\ FileStart(FileChange("b.txt", [kind |-> "New"]))
    /\ ViewStart

\* the store builds the aggregate from the parsed list
FromFiles ==
    /\ ~loaded
    /\ loaded' = TRUE
    /\ workingDirectory' = fromFiles(pending)
    /\ prev' = workingDirectory'
    /\ base' = workingDirectory'
    /\ calls' = <<>>
    /\ found' = null
    /\ UNCHANGED <<pending, fileVars, viewVars>>

WithIncludeAllFiles(includeAll) ==
    /\ loaded
    /\ Len(calls) < MaxCalls
    /\ prev' = workingDirectory
    /\ workingDirectory' = withIncludeAllFiles(workingDirectory, includeAll)
    /\ calls' = Append(calls, includeAll)
    /\ found' = null
    /\ UNCHANGED <<pending, loaded, base, fileVars, viewVars>>

Find(id) ==
    /\ loaded
    /\ found' = [id |-> id,
                 file |-> findFileWithID(workingDirectory, id),
                 index |-> findFileIndexByID(workingDirectory, id),
                 self |-> workingDirectory]
    /\ UNCHANGED <<pending, loaded, prev, workingDirectory, calls, base, fileVars, viewVars>>

Next ==
    \/ FromFiles
    \/ \E includeAll \in BOOLEAN : WithIncludeAllFiles(includeAll)
    \/ \E id \in QueryIds : Find(id)

Spec == Init /\ [][Next]_vars

(***************************************************************************)
(* Properties of the aggregate.                                            *)
(***************************************************************************)
SelectionTypes(files) == [i \in 1..Len(files) |-> getSelectionType(files[i].selection)]

AllOfType(files, type) == \A i \in 1..Len(files) : SelectionTypes(files)[i] = type

LastCall == calls[Len(calls)]

\* the 0-based positions of the files of `files` whose id is `id`
PositionsOf(files, id) == {i - 1 : i \in {j \in 1..Len(files) : files[j].id = id}}

Greatest(S) == CHOOSE m \in S : \A n \in S : n <= m

\* C1: in every status reached by fromFiles and any number of
\* withIncludeAllFiles calls, includeAll is true iff every file's selection
\* type is All, false iff every file's is None, null otherwise, and true
\* whenever there are no files.
C1_IncludeAllMirrorsSelections ==
    loaded =>
        LET files == workingDirectory.files
            includeAll == workingDirectory.includeAll
        IN  IF Len(files) = 0
            THEN includeAll = "true"
            ELSE /\ (includeAll = "true") <=> AllOfType(files, "All")
                 /\ (includeAll = "false") <=> AllOfType(files, "None")
                 /\ (includeAll = "null") <=>
                        (~AllOfType(files, "All") /\ ~AllOfType(files, "None"))

\* C2: fromFiles(files).includeAll is true when files is empty or all files
\* are All, false when files is non-empty and all are None, null in every
\* other case; for a non-empty list the two tests are never both true.
C2_FromFilesDerivesIncludeAll ==
    (loaded /\ calls = <<>>) =>
        /\ workingDirectory.files = pending
        /\ workingDirectory.includeAll =
              CASE Len(pending) = 0 \/ AllOfType(pending, "All") -> "true"
                [] Len(pending) > 0 /\ AllOfType(pending, "None") -> "false"
                [] OTHER -> "null"
        /\ Len(pending) > 0 => ~(AllOfType(pending, "All") /\ AllOfType(pending, "None"))

C2_Witness ==
    /\ loaded /\ calls = <<>>
    /\ Len(pending) = 2
    /\ SelectionTypes(pending) = <<"None", "Partial">>
    /\ workingDirectory.includeAll = "null"

\* C3: s.withIncludeAllFiles(b) has includeAll = b, taken from the argument,
\* and file i is file i of s mapped through withIncludeAll(b), so that
\* every file reports All when b is true and None when b is false.
C3_BulkSelectionTakesArgument ==
    calls # <<>> =>
        /\ workingDirectory.includeAll = (IF LastCall THEN "true" ELSE "false")
        /\ Len(workingDirectory.files) = Len(prev.files)
        /\ \A i \in 1..Len(prev.files) :
              /\ workingDirectory.files[i] = withIncludeAll(prev.files[i], LastCall)
              /\ workingDirectory.files[i].path = prev.files[i].path
              /\ workingDirectory.files[i].id = prev.files[i].id
        /\ AllOfType(workingDirectory.files, IF LastCall THEN "All" ELSE "None")

C3_Witness ==
    /\ calls = <<TRUE>>
    /\ Len(prev.files) = 2
    /\ SelectionTypes(prev.files) = <<"Partial", "None">>
    /\ SelectionTypes(workingDirectory.files) = <<"All", "All">>
    /\ workingDirectory.includeAll = "true"

\* C4: when some file has the id asked for, findFileWithID returns a file of
\* the list with that id, findFileIndexByID an index of a file with that id,
\* and the first is the file at the second; when no file has it they return
\* null and -1.  Neither changes the status.
C4_LookupFindsById ==
    found # null =>
        LET files == found.self.files
        IN  /\ workingDirectory = found.self
            /\ IF \E i \in 1..Len(files) : files[i].id = found.id
               THEN /\ found.index \in 0..(Len(files) - 1)
                    /\ files[found.index + 1].id = found.id
                    /\ found.file # null
                    /\ found.file.id = found.id
                    /\ found.file = files[found.index + 1]
               ELSE /\ found.file = null
                    /\ found.index = -1

C4_Witness ==
    /\ found # null
    /\ Len(workingDirectory.files) = 2
    /\ found.id = "New+b.txt"
    /\ found.index = 0
    /\ found.file = workingDirectory.files[1]
    /\ workingDirectory.files[2].id = "Modified+b.txt"

\* C5: with two or more files of one id the status is still built, files
\* keeps every entry in its position, and both lookups resolve the id to
\* its last occurrence.
C5_LastDuplicateWins ==
    /\ (loaded /\ calls = <<>>) => workingDirectory.files = pending
    /\ loaded => /\ Len(workingDirectory.files) = Len(pending)
                 /\ \A i \in 1..Len(pending) : workingDirectory.files[i].id = pending[i].id
    /\ found # null =>
          LET where == PositionsOf(found.self.files, found.id)
          IN  where # {} =>
                 /\ found.index = Greatest(where)
                 /\ found.file = found.self.files[Greatest(where) + 1]

C5_Witness ==
    /\ found # null
    /\ calls = <<>>
    /\ PositionsOf(workingDirectory.files, found.id) = {0, 1}
    /\ SelectionTypes(workingDirectory.files) = <<"All", "Partial">>
    /\ found.index = 1
    /\ getSelectionType(found.file.selection) = "Partial"

\* C8: bulk selection is idempotent and the last call wins: after calls
\* ending in x, y the status has the includeAll and selection types of
\* s.withIncludeAllFiles(y); if x = y they are those of the status before
\* the second call; if y is false every file is None.
C8_BulkSelectionLastCallWins ==
    Len(calls) >= 2 =>
        LET x == calls[Len(calls) - 1]
            y == calls[Len(calls)]
            direct == withIncludeAllFiles(base, y)
        IN  /\ workingDirectory.includeAll = direct.includeAll
            /\ SelectionTypes(workingDirectory.files) = SelectionTypes(direct.files)
            /\ x = y => /\ workingDirectory.includeAll = prev.includeAll
                        /\ SelectionTypes(workingDirectory.files) = SelectionTypes(prev.files)
            /\ ~y => AllOfType(workingDirectory.files, "None")

C8_Witness ==
    /\ calls = <<TRUE, FALSE>>
    /\ SelectionTypes(base.files) = <<"Partial", "All">>
    /\ SelectionTypes(prev.files) = <<"All", "All">>
    /\ SelectionTypes(workingDirectory.files) = <<"None", "None">>
    /\ workingDirectory.includeAll = "false"

(***************************************************************************)
(* SpecFile: FileChange objects, one constructor or method call at a time. *)
(***************************************************************************)
InitFile ==
    /\ StatusStart(<<>>)
    /\ \E path \in Paths, status \in AppFileStatus : FileStart(FileChange(path, status))
    /\ ViewStart

NewFileChange(path, status) ==
    /\ subject' = produced
    /\ produced' = FileChange(path, status)
    /\ fop' = [name |-> "new"]
    /\ UNCHANGED <<statusVars, viewVars>>

NewWorkingDirectoryFileChange(path, status, selection) ==
    /\ subject' = produced
    /\ produced' = WorkingDirectoryFileChange(path, status, selection)
    /\ fop' = [name |-> "new"]
    /\ UNCHANGED <<statusVars, viewVars>>

NewCommittedFileChange(path, status, commitish) ==
    /\ subject' = produced
    /\ produced' = CommittedFileChange(path, status, commitish)
    /\ fop' = [name |-> "new"]
    /\ UNCHANGED <<statusVars, viewVars>>

\* produced.withIncludeAll(include); no field of the receiver is assigned
FileWithIncludeAll(include) ==
    /\ "selection" \in DOMAIN produced
    /\ subject' = produced
    /\ produced' = withIncludeAll(produced, include)
    /\ fop' = [name |-> "withIncludeAll", arg |-> include, self |-> produced]
    /\ UNCHANGED <<statusVars, viewVars>>

\* produced.withSelection(selection); no field of the receiver is assigned
FileWithSelection(selection) ==
    /\ "selection" \in DOMAIN produced
    /\ subject' = produced
    /\ produced' = withSelection(produced, selection)
    /\ fop' = [name |-> "withSelection", arg |-> selection, self |-> produced]
    /\ UNCHANGED <<statusVars, viewVars>>

NextFile ==
    \/ \E path \in Paths, status \in AppFileStatus : NewFileChange(path, status)
    \/ \E path \in Paths, status \in AppFileStatus, selection \in DiffSelection :
          NewWorkingDirectoryFileChange(path, status, selection)
    \/ \E path \in Paths, status \in AppFileStatus, commitish \in Commitishes :
          NewCommittedFileChange(path, status, commitish)
    \/ \E include \in BOOLEAN : FileWithIncludeAll(include)
    \/ \E selection \in DiffSelection : FileWithSelection(selection)

SpecFile == InitFile /\ [][NextFile]_vars

(***************************************************************************)
(* Properties of FileChange.                                               *)
(***************************************************************************)
HasOldPath(change) == change.status.kind \in {"Renamed", "Copied"}

\* the (kind, path, oldPath) a change is made of; oldPath only where the kind has one
KeyOf(change) ==
    <<change.status.kind, change.path,
      IF HasOldPath(change) THEN <<change.status.oldPath>> ELSE <<>> >>

\* C6: id is kind + "+" + path + "+" + oldPath for Renamed and Copied and
\* kind + "+" + path for the other five kinds; two changes with the same
\* (kind, path, oldPath) have the same id, whatever their conflictStatus,
\* selection or commitish.
C6_IdIsDerivedFromKindPathOldPath ==
    /\ \A change \in {subject, produced} :
          /\ change.status.kind \in {"Renamed", "Copied"} =>
                change.id = change.status.kind \o "+" \o change.path
                                \o "+" \o change.status.oldPath
          /\ change.status.kind \in {"New", "Modified", "Deleted", "Conflicted", "Resolved"} =>
                change.id = change.status.kind \o "+" \o change.path
    /\ KeyOf(subject) = KeyOf(produced) => subject.id = produced.id
    /\ (produced.path = "b.txt" /\ produced.status = [kind |-> "Renamed", oldPath |-> "a.txt"])
          => produced.id = "Renamed+b.txt+a.txt"

C6_Witness ==
    /\ "selection" \in DOMAIN subject
    /\ "commitish" \in DOMAIN produced
    /\ subject.selection.selectionType = "Partial"
    /\ subject.path = "b.txt" /\ produced.path = "b.txt"
    /\ subject.status = [kind |-> "Renamed", oldPath |-> "a.txt"]
    /\ produced.status = subject.status
    /\ subject.id = "Renamed+b.txt+a.txt"
    /\ produced.id = subject.id

\* C7: withIncludeAll(b) and withSelection(sel) return a file with the
\* receiver's path, status and id; withSelection's result has the given
\* selection, withIncludeAll's has type All for true and None for false;
\* the receiver is as it was before the call.
C7_SelectionChangeKeepsIdentity ==
    fop.name \in {"withIncludeAll", "withSelection"} =>
        /\ produced.path = fop.self.path
        /\ produced.status = fop.self.status
        /\ produced.id = fop.self.id
        /\ fop.name = "withSelection" => produced.selection = fop.arg
        /\ fop.name = "withIncludeAll" =>
              getSelectionType(produced.selection) = (IF fop.arg THEN "All" ELSE "None")
        /\ subject = fop.self

C7_Witness ==
    /\ fop.name = "withSelection"
    /\ getSelectionType(fop.self.selection) = "All"
    /\ getSelectionType(fop.arg) = "Partial"
    /\ getSelectionType(produced.selection) = "Partial"
    /\ getSelectionType(subject.selection) = "All"
    /\ produced.id = "Copied+b.txt+a.txt"

\* C9: two changes that differ in kind, in path or, for Renamed and Copied,
\* in oldPath have different ids, whatever the strings hold.
C9_IdIsInjective ==
    KeyOf(subject) # KeyOf(produced) => subject.id # produced.id

(***************************************************************************)
(* SpecView: the MissingRepository component.  A check is named by the id  *)
(* of the timer it sets.                                                   *)
(***************************************************************************)
renderCheckAgainText(refreshCompleted, timeElapsed) ==
    IF refreshCompleted /\ timeElapsed THEN "Check again." ELSE "Checking..."

\* the window's pending timers after clearCheckingTimer()
clearCheckingTimer == IF checkingTimer # 0 THEN timers \ {checkingTimer} ELSE timers

InitView ==
    /\ StatusStart(<<>>)
    /\ FileStart(FileChange("b.txt", [kind |-> "New"]))
    /\ ViewStart

\* onClick of the "Check again." link.  refreshRepository returns a promise
\* that checkAgain does not await: the refresh is still running when
\* checkingAgainRefreshCompleted is set back to true and the view re-renders.
checkAgain ==
    /\ mounted
    /\ rendered = "Check again."
    /\ nextTimerId <= MaxChecks
    /\ checkingTimer' = nextTimerId
    /\ timers' = clearCheckingTimer \cup {nextTimerId}
    /\ nextTimerId' = nextTimerId + 1
    /\ refreshing' = refreshing \cup {nextTimerId}
    /\ checkingAgainTimeElapsed' = FALSE
    /\ checkingAgainRefreshCompleted' = TRUE
    /\ rendered' = renderCheckAgainText(checkingAgainRefreshCompleted',
                                        checkingAgainTimeElapsed')
    /\ UNCHANGED <<mounted, statusVars, fileVars>>

\* the window runs a pending timer's callback
checkingAgainTimerElapsed(timer) ==
    /\ timer \in timers
    /\ checkingAgainTimeElapsed' = TRUE
    /\ timers' = clearCheckingTimer \ {timer}
    /\ checkingTimer' = 0
    /\ rendered' = renderCheckAgainText(checkingAgainRefreshCompleted,
                                        checkingAgainTimeElapsed')
    /\ UNCHANGED <<checkingAgainRefreshCompleted, nextTimerId, refreshing, mounted,
                   statusVars, fileVars>>

\* a dispatched refresh finishes; the component is not told
refreshRepositoryDone(check) ==
    /\ check \in refreshing
    /\ refreshing' = refreshing \ {check}
    /\ UNCHANGED <<checkingAgainTimeElapsed, checkingAgainRefreshCompleted, checkingTimer,
                   timers, nextTimerId, rendered, mounted, statusVars, fileVars>>

componentWillUnmount ==
    /\ mounted
    /\ mounted' = FALSE
    /\ timers' = clearCheckingTimer
    /\ checkingTimer' = 0
    /\ UNCHANGED <<checkingAgainTimeElapsed, checkingAgainRefreshCompleted, nextTimerId,
                   refreshing, rendered, statusVars, fileVars>>

NextView ==
    \/ checkAgain
    \/ \E timer \in 1..MaxChecks : checkingAgainTimerElapsed(timer)
    \/ \E check \in 1..MaxChecks : refreshRepositoryDone(check)
    \/ componentWillUnmount

SpecView == InitView /\ [][NextView]_vars

\* the check the last checkAgain started; 0 before the first
LastCheck == nextTimerId - 1

\* C10: from checkAgain until both the refresh it dispatched has completed
\* and its timer has fired the view shows "Checking..." and not the link;
\* the link is shown only when both flags are true; at most one timer is
\* pending at any time and none after componentWillUnmount.
C10_CheckingUntilRefreshAndTimer ==
    /\ (mounted /\ LastCheck > 0 /\ (LastCheck \in refreshing \/ LastCheck \in timers))
          => rendered = "Checking..."
    /\ mounted => ((rendered = "Check again.") <=>
                      (checkingAgainRefreshCompleted /\ checkingAgainTimeElapsed))
    /\ Cardinality(timers) <= 1
    /\ ~mounted => timers = {}

====
